---- MODULE Spec2Model ----
(***************************************************************************)
(* Model of amd_zen_ucode.py: the AMD Zen microcode layout plugin.         *)
(* The host database (BinaryView) is a record bv holding the type          *)
(* registry, the data variables, the symbols and the comments, plus the    *)
(* sequence of host calls made (trace), the diagnostics emitted (log) and  *)
(* whether an exception is propagating (raised).  Every function of the    *)
(* plugin is an operator from bv to bv.  A host call may raise: the input  *)
(* fail names the one host call of the command that raises, if any.        *)
(***************************************************************************)
EXTENDS Integers, Sequences, FiniteSets, TLC

\* ---------------------------------------------------------------- bounds
\* Number of commands issued in one session.
MaxCalls == 2
\* Image ends explored lie at 0 .. MaxSlack bytes past each pivot address.
MaxSlack == 2

\* ------------------------------------------------------ layout constants
PATCH_SIZE == 14368
HDR_OFF == 0
HDR_SIZE == 32
RANDOM_OFF == 32
RANDOM_SIZE == 768
UCREG_OFF == 800
UCREG_SIZE == 13568
BODY_SIZE == 14336
UOP_SIZE == 4
UOP_COUNT == UCREG_SIZE \div UOP_SIZE

T_HDR == "AMD_MC_Header"
T_RAND == "AMD_MC_RandomBlocks"
T_PATCH == "AMD_MC_Patch"
T_ENUM == "AMD_Zen_Opcode"
T_UOP == "AMD_Zen_MicroOp"
T_REG == "AMD_Zen_MicrocodeRegion"
T_AUTO == "AMD_Zen_MicrocodeRegion_auto"

\* ------------------------------------------------------------ host types
\* A type is its name, its size in bytes and, for the region types, the
\* number of micro-op records it holds.
None == [name |-> "None", size |-> 0, count |-> 0]

Max(a, b) == IF a >= b THEN a ELSE b
Min(a, b) == IF a <= b THEN a ELSE b

RECURSIVE SumSizes(_)
SumSizes(fields) ==
    IF fields = << >> THEN 0 ELSE Head(fields).size + SumSizes(Tail(fields))

_uint(width) == [name |-> "uint", size |-> width, count |-> 0]
u8 == _uint(1)
u16 == _uint(2)
u32 == _uint(4)

\* Type.array(t, n)
array(t, n) == [name |-> "array", size |-> t.size * n, count |-> n]

\* Type.structure(sb) of a packed builder: the fields laid end to end.
_type_structure(sb) == [name |-> "struct", size |-> SumSizes(sb), count |-> 0]

\* Type.named_type_from_type(name, t)
named_type_from_type(name, t) == [name |-> name, size |-> t.size, count |-> t.count]

\* --------------------------------------------------------- failure input
NoFail == [region |-> "none", step |-> "none"]
Fails(fail, region, step) == fail.region = region /\ fail.step = step

\* ------------------------------------------------------- host primitives
Traced(bv, op, addr, arg) == [bv EXCEPT !.trace = Append(@, <<op, addr, arg>>)]
Logged(bv, msg) == [bv EXCEPT !.log = Append(@, msg)]
Raise(bv) == [bv EXCEPT !.raised = TRUE]

get_type_by_name(bv, name) ==
    IF name \in DOMAIN bv.types THEN bv.types[name] ELSE None

\* bv.define_user_type(name, t): registers t under name, replacing any type
\* of that name.
define_user_type(bv, name, t, fail) ==
    IF bv.raised THEN bv
    ELSE IF Fails(fail, "types", name) THEN Raise(Traced(bv, "define_type_raises", 0, name))
    ELSE [Traced(bv, "define_type", 0, name) EXCEPT
            !.types = [n \in (DOMAIN bv.types) \cup {name} |->
                         IF n = name THEN [name |-> name, size |-> t.size, count |-> t.count]
                         ELSE bv.types[n]]]

NoVar(addr) == [addr |-> addr, type |-> "None", size |-> 0, count |-> 0]
VarAt(vars, addr) ==
    IF \E v \in vars : v.addr = addr
    THEN CHOOSE v \in vars : v.addr = addr
    ELSE NoVar(addr)

\* bv.undefine_user_data_var(addr)
undefine_user_data_var(bv, addr) ==
    [Traced(bv, "undef", addr, "") EXCEPT !.vars = {v \in @ : v.addr # addr}]

\* bv.define_user_data_var(addr, t)
define_user_data_var(bv, addr, t) ==
    [Traced(bv, "define", addr, t.name) EXCEPT
       !.vars = {v \in @ : v.addr # addr} \cup
                {[addr |-> addr, type |-> t.name, size |-> t.size, count |-> t.count]}]

\* bv.define_user_symbol(Symbol(DataSymbol, addr, sym))
define_user_symbol(bv, addr, sym) ==
    [Traced(bv, "symbol", addr, sym) EXCEPT
       !.syms = {s \in @ : s.addr # addr} \cup {[addr |-> addr, name |-> sym]}]

\* bv.set_comment_at(addr, comment)
set_comment_at(bv, addr, comment) ==
    [Traced(bv, "comment", addr, comment) EXCEPT
       !.comments = {c \in @ : c.addr # addr} \cup {[addr |-> addr, text |-> comment]}]

\* len(bv.read(base, n)): the bytes the image holds from base on, at most n.
read_len(file_end, base, n) == Max(0, Min(n, file_end - base))

\* ------------------------------------------------------------- _ensure_types
\* _make_enum_type_best_effort(): an enumeration type of width 1, or None
\* when the host cannot build one.
_make_enum_type_best_effort(enumOK) ==
    IF enumOK THEN [name |-> "enum", size |-> 1, count |-> 0] ELSE None

\* Variant of already_defined: the test is lost and every call constructs.
already_defined_never(bv) == FALSE

\* The "already defined?" test.
already_defined(bv) == get_type_by_name(bv, T_PATCH) # None

HdrFields ==
    << u16, u8, u8, u32, u16, u8, u8, u32, u16, u16,
       u16, u16, u16, u8, u8, u8, u8, u8, u8 >>

_ensure_types(bv, enumOK, fail) ==
    IF already_defined(bv) THEN bv
    ELSE
    LET enum_t == _make_enum_type_best_effort(enumOK)
        b0 == Traced(bv, "construct", 0, "")
        b1 == IF enum_t # None
              THEN LET d == define_user_type(b0, T_ENUM, enum_t, fail)
                   IN  IF d.raised THEN d ELSE Logged(d, "info_enum")
              ELSE Logged(b0, "warn_no_enum")
        opcode_field_t == IF enum_t # None
                          THEN named_type_from_type(T_ENUM, enum_t) ELSE u8
        uop_t == _type_structure(<< opcode_field_t, u8, u16 >>)
        b2 == define_user_type(b1, T_UOP, uop_t, fail)
        uop_named == named_type_from_type(T_UOP, uop_t)
        reg_t == [_type_structure(<< array(uop_named, UOP_COUNT) >>)
                    EXCEPT !.count = UOP_COUNT]
        b3 == define_user_type(b2, T_REG, reg_t, fail)
        hdr_t == _type_structure(HdrFields)
        b4 == define_user_type(b3, T_HDR, hdr_t, fail)
        hdr_named == named_type_from_type(T_HDR, hdr_t)
        rand_t == _type_structure(<< array(u8, 256), array(u8, 256), array(u8, 256) >>)
        b5 == define_user_type(b4, T_RAND, rand_t, fail)
        patch_t == _type_structure(<< hdr_named, array(u8, 14336) >>)
        b6 == define_user_type(b5, T_PATCH, patch_t, fail)
    IN  IF b6.raised THEN b6 ELSE Logged(Traced(b6, "constructed", 0, ""), "info_types")

\* --------------------------------------------------- BinaryView var helpers
_safe_undef_var(bv, addr, region, fail) ==
    IF Fails(fail, region, "undef")
    THEN Traced(bv, "undef_raises", addr, "")
    ELSE undefine_user_data_var(bv, addr)

\* Variant of _define_var: returns after the clear when the address held a
\* variable.
_define_var_clear_only(bv, addr, t, sym, comment, region, fail) ==
    IF bv.raised THEN bv
    ELSE IF VarAt(bv.vars, addr) # NoVar(addr)
    THEN _safe_undef_var(bv, addr, region, fail)
    ELSE
    LET b1 == _safe_undef_var(bv, addr, region, fail)
        b2 == IF Fails(fail, region, "define")
              THEN Raise(Traced(b1, "define_raises", addr, t.name))
              ELSE define_user_data_var(b1, addr, t)
        b3 == IF b2.raised \/ sym = "" THEN b2
              ELSE IF Fails(fail, region, "symbol")
              THEN Raise(Traced(b2, "symbol_raises", addr, sym))
              ELSE define_user_symbol(b2, addr, sym)
    IN  IF b3.raised \/ comment = "" THEN b3
        ELSE IF Fails(fail, region, "comment")
        THEN Raise(Traced(b3, "comment_raises", addr, comment))
        ELSE set_comment_at(b3, addr, comment)

_define_var(bv, addr, t, sym, comment, region, fail) ==
    IF bv.raised THEN bv
    ELSE
    LET b1 == _safe_undef_var(bv, addr, region, fail)
        b2 == IF Fails(fail, region, "define")
              THEN Raise(Traced(b1, "define_raises", addr, t.name))
              ELSE define_user_data_var(b1, addr, t)
        b3 == IF b2.raised \/ sym = "" THEN b2
              ELSE IF Fails(fail, region, "symbol")
              THEN Raise(Traced(b2, "symbol_raises", addr, sym))
              ELSE define_user_symbol(b2, addr, sym)
        b4 == IF b3.raised \/ comment = "" THEN b3
              ELSE IF Fails(fail, region, "comment")
              THEN Raise(Traced(b3, "comment_raises", addr, comment))
              ELSE set_comment_at(b3, addr, comment)
    IN  b4

_check_size(bv, file_end, base, fail) ==
    IF Fails(fail, "check", "read") THEN Traced(bv, "read_raises", base, "")
    ELSE IF read_len(file_end, base, PATCH_SIZE) < PATCH_SIZE
    THEN Logged(Traced(bv, "read", base, ""), "warn_short")
    ELSE Traced(bv, "read", base, "")

\* ------------------------------------------------------------ apply_layout_at
\* Variant of types_ready: the looked-up types are not tested.
types_ready_unchecked(patch_t, hdr_t, rand_t, reg_t) == TRUE

\* all([patch_t, hdr_t, rand_t, reg_t])
types_ready(patch_t, hdr_t, rand_t, reg_t) ==
    patch_t # None /\ hdr_t # None /\ rand_t # None /\ reg_t # None

\* Variant of define_fixed_regions: the header is defined before the container.
define_fixed_regions_header_first(bv, base, patch_t, hdr_t, rand_t, fail) ==
    LET b1 == _define_var(bv, base + HDR_OFF, hdr_t, "amd_mc_header", "", "hdr", fail)
        b2 == _define_var(b1, base + 0, patch_t, "amd_mc_patch",
                          "AMD microcode patch container", "patch", fail)
    IN  _define_var(b2, base + RANDOM_OFF, rand_t, "amd_mc_random_blocks", "", "rand", fail)

\* The three fixed regions, in the order the code defines them.
define_fixed_regions(bv, base, patch_t, hdr_t, rand_t, fail) ==
    LET b1 == _define_var(bv, base + 0, patch_t, "amd_mc_patch",
                          "AMD microcode patch container", "patch", fail)
        b2 == _define_var(b1, base + HDR_OFF, hdr_t, "amd_mc_header", "", "hdr", fail)
    IN  _define_var(b2, base + RANDOM_OFF, rand_t, "amd_mc_random_blocks", "", "rand", fail)

\* Variant of region_out_of_range: reg_base > file_end.
region_out_of_range_strict(reg_base, file_end) == reg_base > file_end

\* reg_base >= file_end
region_out_of_range(reg_base, file_end) == reg_base >= file_end

\* Variant of ucode_size_of: rounds up to the next multiple of UOP_SIZE.
ucode_size_of_round_up(available) ==
    LET m == Min(available, UCREG_SIZE) IN m + ((UOP_SIZE - (m % UOP_SIZE)) % UOP_SIZE)

\* ucode_size = min(available, UCREG_SIZE); ucode_size -= ucode_size % UOP_SIZE
ucode_size_of(available) ==
    LET m == Min(available, UCREG_SIZE) IN m - (m % UOP_SIZE)

\* Variant of parse_type_string: the parsed type is also registered.
parse_type_string_registers(bv, uops_count, fail) ==
    IF Fails(fail, "reg", "parse") \/ get_type_by_name(bv, T_UOP) = None
    THEN Raise(Traced(bv, "parse_type_raises", uops_count, T_AUTO))
    ELSE define_user_type(Traced(bv, "parse_type", uops_count, T_AUTO), T_AUTO,
                          [name |-> T_AUTO, size |-> UOP_SIZE * uops_count,
                           count |-> uops_count], fail)

\* bv.parse_type_string("struct AMD_Zen_MicrocodeRegion_auto { AMD_Zen_MicroOp
\* uops[n]; };"): builds the type and leaves the registry alone; the element
\* type is looked up by name and the parse raises when it is unknown.
parse_type_string(bv, uops_count, fail) ==
    IF Fails(fail, "reg", "parse") \/ get_type_by_name(bv, T_UOP) = None
    THEN Raise(Traced(bv, "parse_type_raises", uops_count, T_AUTO))
    ELSE Traced(bv, "parse_type", uops_count, T_AUTO)

auto_type(bv, uops_count) ==
    [name |-> T_AUTO, size |-> get_type_by_name(bv, T_UOP).size * uops_count,
     count |-> uops_count]

define_ucode_region(bv, reg_base, file_end, reg_t, fail) ==
    LET available == file_end - reg_base
        ucode_size == ucode_size_of(available)
        uops_count == ucode_size \div UOP_SIZE
    IN  IF ucode_size = UCREG_SIZE
        THEN _define_var(bv, reg_base, reg_t, "amd_ucode_region", "", "reg", fail)
        ELSE LET p == parse_type_string(bv, uops_count, fail)
             IN  _define_var(p, reg_base, auto_type(bv, uops_count),
                             "amd_ucode_region", "", "reg", fail)

update_analysis(bv, fail) ==
    IF Fails(fail, "analysis", "update") THEN Traced(bv, "update_raises", 0, "")
    ELSE Traced(bv, "update_analysis", 0, "")

apply_layout_at(bv, base, file_end, enumOK, fail) ==
    LET e == _ensure_types(bv, enumOK, fail)
        c == _check_size(e, file_end, base, fail)
        patch_t == get_type_by_name(c, T_PATCH)
        hdr_t == get_type_by_name(c, T_HDR)
        rand_t == get_type_by_name(c, T_RAND)
        reg_t == get_type_by_name(c, T_REG)
        reg_base == base + UCREG_OFF
    IN  IF e.raised THEN e
        ELSE IF ~ types_ready(patch_t, hdr_t, rand_t, reg_t)
        THEN Logged(c, "error_types")
        ELSE LET f == define_fixed_regions(c, base, patch_t, hdr_t, rand_t, fail)
             IN  IF f.raised THEN f
                 ELSE IF region_out_of_range(reg_base, file_end)
                 THEN Logged(f, "warn_no_bytes")
                 ELSE LET r == define_ucode_region(f, reg_base, file_end, reg_t, fail)
                      IN  IF r.raised THEN r
                          ELSE Logged(update_analysis(r, fail), "info_applied")

\* ------------------------------------------------------------------ state
VARIABLES
    fileEnd,    \* bv.end: the address one past the last byte of the image
    types,      \* the host's type registry: name -> type
    vars,       \* the host's user data variables
    syms,       \* the host's user symbols
    comments,   \* the host's comments
    calls,      \* commands issued so far
    passes,     \* construction passes of _ensure_types run to their end
    fresh,      \* the database held no AMD_MC_Patch type when the session began
    last        \* the last command: its inputs, the state before it, its effects

vars_all == << fileEnd, types, vars, syms, comments, calls, passes, fresh, last >>

\* Image ends: an image ending one byte before the microcode region starts,
\* one holding 0x400 bytes of the region and one holding all but the last two
\* bytes of the patch (each for base 0), and up to MaxSlack bytes more.
Pivots == {UCREG_OFF - 1, UCREG_OFF + 1024, PATCH_SIZE - 2}
ImageEnds == {p + d : p \in Pivots, d \in 0 .. MaxSlack}

\* Addresses the cursor command is run at: 16 bytes before the image's end.
CursorBases(file_end) == {b \in {file_end - 16} : 0 <= b /\ b < file_end}

\* A database may already hold a type named AMD_MC_Patch that this plugin
\* did not define.
InitRegistries ==
    { << >>, [n \in {T_PATCH} |-> [name |-> T_PATCH, size |-> PATCH_SIZE, count |-> 0]] }

TypeFails == {[region |-> "types", step |-> n] :
                n \in {T_ENUM, T_UOP, T_REG, T_HDR, T_RAND, T_PATCH}}
VarFails ==
    {[region |-> r, step |-> s] : r \in {"patch", "hdr", "rand", "reg"},
                                   s \in {"undef", "define", "symbol"}}
    \cup {[region |-> "patch", step |-> "comment"], [region |-> "reg", step |-> "parse"],
          [region |-> "check", step |-> "read"], [region |-> "analysis", step |-> "update"]}

Host == [types |-> types, vars |-> vars, syms |-> syms, comments |-> comments,
         trace |-> << >>, log |-> << >>, raised |-> FALSE]

HasOp(trace, op) == \E i \in 1 .. Len(trace) : trace[i][1] = op
RaisedOps == {"define_type_raises", "undef_raises", "define_raises", "symbol_raises",
              "comment_raises", "parse_type_raises", "read_raises", "update_raises"}
\* The host call named by fail was made (and raised): an input names only a
\* call the command makes.
Fired(trace, fail) ==
    fail = NoFail \/ \E i \in 1 .. Len(trace) : trace[i][1] \in RaisedOps

\* The inputs of a command: whether the host can build an enumeration (asked
\* only when the types are constructed) and the host call that raises.
EnumInputs == IF already_defined(Host) THEN {TRUE} ELSE BOOLEAN
EnsureFails == IF already_defined(Host) THEN {NoFail} ELSE {NoFail} \cup TypeFails
ApplyFails == EnsureFails \cup VarFails

NoLast == [op |-> "none", base |-> 0, enumOK |-> TRUE, fail |-> NoFail,
           pre |-> [types |-> << >>, vars |-> {}, syms |-> {}, comments |-> {}],
           trace |-> << >>, log |-> << >>, raised |-> FALSE, repeat |-> FALSE]

Init ==
    /\ fileEnd \in ImageEnds
    /\ types \in InitRegistries
    /\ vars = {}
    /\ syms = {}
    /\ comments = {}
    /\ calls = 0
    /\ passes = 0
    /\ fresh = (T_PATCH \notin DOMAIN types)
    /\ last = [NoLast EXCEPT !.pre.types = types]

\* The host state after a command whose run is r.
Commit(op, base, enumOK, fail, r) ==
    /\ Fired(r.trace, fail)
    /\ types' = r.types
    /\ vars' = r.vars
    /\ syms' = r.syms
    /\ comments' = r.comments
    /\ calls' = calls + 1
    /\ passes' = IF HasOp(r.trace, "constructed") THEN passes + 1 ELSE passes
    /\ last' = [op |-> op, base |-> base, enumOK |-> enumOK, fail |-> fail,
                pre |-> [types |-> types, vars |-> vars, syms |-> syms,
                         comments |-> comments],
                trace |-> r.trace, log |-> r.log, raised |-> r.raised,
                repeat |-> (last.op \in {"apply_zero", "apply_cursor"}
                            /\ op \in {"apply_zero", "apply_cursor"}
                            /\ last.base = base /\ ~ last.raised)]
    /\ UNCHANGED << fileEnd, fresh >>

cmd_define_types ==
    /\ calls < MaxCalls
    /\ \E enumOK \in EnumInputs, fail \in EnsureFails :
         Commit("define_types", 0, enumOK, fail, _ensure_types(Host, enumOK, fail))

cmd_apply_at_zero ==
    /\ calls < MaxCalls
    /\ \E enumOK \in EnumInputs, fail \in ApplyFails :
         Commit("apply_zero", 0, enumOK, fail,
                apply_layout_at(Host, 0, fileEnd, enumOK, fail))

cmd_apply_at_cursor ==
    /\ calls < MaxCalls
    /\ \E addr \in CursorBases(fileEnd), enumOK \in EnumInputs, fail \in ApplyFails :
         Commit("apply_cursor", addr, enumOK, fail,
                apply_layout_at(Host, addr, fileEnd, enumOK, fail))

Next == cmd_define_types \/ cmd_apply_at_zero \/ cmd_apply_at_cursor

Spec == Init /\ [][Next]_vars_all

\* ------------------------------------------------- reading the last command
IsApply == last.op \in {"apply_zero", "apply_cursor"}
RegBase == last.base + UCREG_OFF
Available == fileEnd - RegBase
\* A type apply_layout_at looks up is absent from the registry; the registry
\* is written by _ensure_types only, so it is absent after _ensure_types.
TypesMissing == \E n \in {T_PATCH, T_HDR, T_RAND, T_REG} : n \notin DOMAIN types
\* The call got past the type check of apply_layout_at.
Registered == IsApply /\ ~ TypesMissing
Completed == Registered /\ ~ last.raised
VarOps == {"undef", "undef_raises", "define", "define_raises", "symbol",
           "symbol_raises", "comment", "comment_raises"}
OpsOf(trace, ops) == SelectSeq(trace, LAMBDA e : e[1] \in ops)
HasEntry(trace, op, addr) ==
    \E i \in 1 .. Len(trace) : trace[i][1] = op /\ trace[i][2] = addr
FloorTo(n, k) == (n \div k) * k

\* C1: region sizing.  After an apply call that ran to its end with
\* available_bytes > 0, the microcode variable covers min(available, 0x3500)
\* rounded down to a multiple of 4 and holds that many bytes / 4 records; with
\* available >= 0x3500 it is the registered AMD_Zen_MicrocodeRegion of 0xD40
\* records and no ad hoc type was built; with less it is an ad hoc type of
\* exactly record_count records.
C1_RegionSizing ==
    (Completed /\ Available > 0) =>
        LET usable == FloorTo(Min(Available, UCREG_SIZE), UOP_SIZE)
            record_count == usable \div UOP_SIZE
            v == VarAt(vars, RegBase)
        IN  /\ v.size = usable
            /\ v.count = record_count
            /\ HasEntry(last.trace, "define", RegBase)
            /\ (Available >= UCREG_SIZE =>
                  /\ usable = 13568 /\ record_count = 3392
                  /\ v.type = T_REG
                  /\ ~ HasOp(last.trace, "parse_type"))
            /\ (Available < UCREG_SIZE =>
                  /\ v.type = T_AUTO
                  /\ HasEntry(last.trace, "parse_type", record_count))

C1_Witness ==
    /\ Completed
    /\ Available > 0 /\ Available < UCREG_SIZE /\ Available % UOP_SIZE # 0
    /\ VarAt(vars, RegBase).type = T_AUTO
    /\ VarAt(vars, RegBase).count = 256

\* C2: no variable has a declared size exceeding the bytes the image holds
\* from its address on.
C2_NoVarBeyondImage == \A v \in vars : v.addr + v.size <= fileEnd

\* C3: each region's clear-then-define step is atomic.  When a host call raises
\* while apply defines a region, the regions before it hold what this call
\* defined, the regions after it are untouched, and the failing region's
\* address holds its new variable or the variable it held before the step.
RegionOrder == << "patch", "hdr", "rand", "reg" >>
RegionIndex(r) == CHOOSE i \in 1 .. 4 : RegionOrder[i] = r
RegionAddr(r) ==
    CASE r = "patch" -> last.base
      [] r = "hdr" -> last.base + HDR_OFF
      [] r = "rand" -> last.base + RANDOM_OFF
      [] r = "reg" -> RegBase
RegionType(r) ==
    CASE r = "patch" -> T_PATCH
      [] r = "hdr" -> T_HDR
      [] r = "rand" -> T_RAND
      [] r = "reg" -> IF Available >= UCREG_SIZE THEN T_REG ELSE T_AUTO
\* What the failing region's address held when its step began.
HeldBefore(r) ==
    IF r = "hdr" THEN T_PATCH ELSE VarAt(last.pre.vars, RegionAddr(r)).type
C3_AtomicRegionStep ==
    (Registered /\ last.raised /\ last.fail.region \in {"patch", "hdr", "rand", "reg"}) =>
        LET k == RegionIndex(last.fail.region)
        IN  /\ \A i \in 1 .. 4 :
                 (i > k /\ RegionAddr(RegionOrder[i]) # RegionAddr(RegionOrder[k]))
                   => VarAt(vars, RegionAddr(RegionOrder[i]))
                      = VarAt(last.pre.vars, RegionAddr(RegionOrder[i]))
            /\ \A i \in 2 .. 4 :
                 i < k => VarAt(vars, RegionAddr(RegionOrder[i])).type
                          = RegionType(RegionOrder[i])
            /\ VarAt(vars, RegionAddr(RegionOrder[k])).type
                 \in {RegionType(RegionOrder[k]), HeldBefore(RegionOrder[k])}

\* C4: when the microcode region starts at or beyond the image end, apply
\* defines the container, the header and the random blocks, leaves the
\* microcode region's address alone and warns instead of reporting an error.
C4_RegionOutOfRange ==
    (Completed /\ Available <= 0) =>
        /\ OpsOf(last.trace, {"define"})
             = << <<"define", last.base, T_PATCH>>, <<"define", last.base, T_HDR>>,
                  <<"define", last.base + 32, T_RAND>> >>
        /\ VarAt(vars, last.base).type = T_HDR
        /\ VarAt(vars, last.base + 32).type = T_RAND
        /\ ~ HasEntry(last.trace, "undef", RegBase)
        /\ VarAt(vars, RegBase) = VarAt(last.pre.vars, RegBase)
        /\ last.log[Len(last.log)] = "warn_no_bytes"

C4_Witness ==
    /\ Completed /\ Available <= 0
    /\ last.fail = NoFail
    /\ VarAt(vars, last.base).type = T_HDR

\* C5: when type registration failed (a type is missing after _ensure_types,
\* or _ensure_types raised), apply performs no variable operation and the
\* host's variables, symbols and comments are as before the call.
C5_NoVarsWithoutTypes ==
    (IsApply /\ TypesMissing) =>
        /\ (HasOp(last.trace, "define_type_raises") => last.raised)
        /\ (~ HasOp(last.trace, "define_type_raises")
              => ~ last.raised /\ last.log[Len(last.log)] = "error_types")
        /\ OpsOf(last.trace, VarOps) = << >>
        /\ vars = last.pre.vars
        /\ syms = last.pre.syms
        /\ comments = last.pre.comments

C5_Witness ==
    /\ IsApply /\ TypesMissing /\ ~ last.raised
    /\ last.log = << "warn_short", "error_types" >>

\* C6: apply is idempotent.  A second apply at the same base, right after one
\* that returned, leaves the variables, symbols, comments and type registry
\* as the first left them, registers nothing and does not raise.
C6_ApplyIdempotent ==
    (IsApply /\ last.repeat /\ last.fail = NoFail) =>
        /\ vars = last.pre.vars
        /\ syms = last.pre.syms
        /\ comments = last.pre.comments
        /\ types = last.pre.types
        /\ ~ last.raised
        /\ ~ HasOp(last.trace, "define_type")

C6_Witness ==
    /\ Completed /\ last.repeat /\ last.fail = NoFail
    /\ Cardinality(vars) = 3
    /\ VarAt(vars, RegBase).type = T_AUTO

\* C7: registration is idempotent.  At most one construction pass runs to its
\* end; in a session that began without the container type exactly one has
\* run once the container type exists, which it does after every call of
\* _ensure_types that returned; a call made when the container type exists
\* defines nothing and leaves the registry as it was.
C7_RegistrationIdempotent ==
    /\ passes <= 1
    /\ (fresh => (passes = 1 <=> T_PATCH \in DOMAIN types))
    /\ (last.op # "none" /\ ~ HasOp(last.trace, "define_type_raises")
          => T_PATCH \in DOMAIN types)
    /\ (last.op # "none" /\ T_PATCH \in DOMAIN last.pre.types =>
          /\ types = last.pre.types
          /\ ~ HasOp(last.trace, "construct")
          /\ ~ HasOp(last.trace, "define_type"))

C7_Witness ==
    /\ fresh /\ calls = 2 /\ passes = 1
    /\ last.op = "define_types"
    /\ T_PATCH \in DOMAIN last.pre.types

\* C8: the ad hoc region type never enters the type registry, whose names
\* are those _ensure_types registers; every apply that types a truncated
\* region builds its type anew.
EnsureNames == {T_ENUM, T_UOP, T_REG, T_HDR, T_RAND, T_PATCH}
C8_AutoTypeNotRegistered ==
    /\ DOMAIN types \subseteq EnsureNames
    /\ (IsApply /\ HasEntry(last.trace, "define", RegBase)
                /\ VarAt(vars, RegBase).type = T_AUTO
          => HasEntry(last.trace, "parse_type", VarAt(vars, RegBase).count))

C8_Witness ==
    /\ Completed /\ last.repeat
    /\ VarAt(last.pre.vars, RegBase).type = T_AUTO
    /\ VarAt(vars, RegBase).type = T_AUTO
    /\ HasOp(last.trace, "parse_type")

\* C9: every apply call that passes type registration, defines a variable
\* and returns has requested re-analysis after its last definition.
LastIndex(trace, ops) ==
    IF \E i \in 1 .. Len(trace) : trace[i][1] \in ops
    THEN CHOOSE i \in 1 .. Len(trace) :
           /\ trace[i][1] \in ops
           /\ \A j \in (i + 1) .. Len(trace) : trace[j][1] \notin ops
    ELSE 0
C9_ReanalysisRequested ==
    (Completed /\ HasOp(last.trace, "define")) =>
        LastIndex(last.trace, {"update_analysis", "update_raises"})
          > LastIndex(last.trace, {"define"})

\* C10: the regions are applied in the order container, header, random
\* blocks, microcode, each cleared before it is defined; no address holds
\* two variables; after an apply that ran to its end the variable at base
\* is the header.
C10_OrderAndOverlay ==
    /\ \A v, w \in vars : v.addr = w.addr => v = w
    /\ Completed =>
         /\ VarAt(vars, last.base).type = T_HDR
         /\ LET steps == OpsOf(last.trace, {"undef", "undef_raises", "define"})
                fixed == << last.base, last.base, last.base + 32 >>
                addrs == IF Available > 0 THEN Append(fixed, RegBase) ELSE fixed
                names == << T_PATCH, T_HDR, T_RAND, RegionType("reg") >>
            IN  /\ Len(steps) = 2 * Len(addrs)
                /\ \A i \in 1 .. Len(addrs) :
                     /\ steps[2 * i - 1][1] \in {"undef", "undef_raises"}
                     /\ steps[2 * i - 1][2] = addrs[i]
                     /\ steps[2 * i] = << "define", addrs[i], names[i] >>

C10_Witness ==
    /\ Completed /\ Available > 0
    /\ VarAt(last.pre.vars, last.base).type = T_HDR
    /\ VarAt(vars, last.base).type = T_HDR
    /\ VarAt(vars, RegBase).type = T_REG

====
